---- MODULE Spec2Model ----
(***************************************************************************)
(* Tree training (TreeTrainer), leaf summaries (RegressionPrediction-      *)
(* Strategy) and the optimized prediction collector of the generalized     *)
(* random forest library, as state machines.                               *)
(*                                                                         *)
(* C++ vectors indexed by node id, sample id or tree index are functions   *)
(* on 0..n-1 ("Vec"); lists of sample ids, whose positions nobody reads,   *)
(* are sequences.  Doubles are exact rationals extended with NaN and the   *)
(* infinities; rounding is not modelled.                                    *)
(***************************************************************************)
EXTENDS Integers, Sequences, FiniteSets, TLC

VARIABLES
  \* ---- inputs of TreeTrainer::train
  honesty,            \* options.get_honesty()
  min_node_size,      \* options.get_min_node_size()
  samples,            \* the sample ids handed to train
  data,               \* data[sample][var]
  observations,       \* observations[sample]: the OUTCOME row of the sample
  \* ---- locals of TreeTrainer::train, then fields of the Tree
  child_nodes,        \* child_nodes[0], child_nodes[1]: node id -> child id
  nodes,              \* node id -> list of sample ids
  split_vars,
  split_values,
  new_leaf_samples,
  num_open_nodes,
  i,
  prediction_values,  \* the PredictionValues attached to the tree
  pc,                 \* position in train
  split_samples,      \* history: the samples placed in node 0 (line 49/51)
  last_split,         \* history: the latest split_node call and what it invoked
  \* ---- inputs of OptimizedPredictionCollector::collect_predictions
  forest,             \* tree index -> PredictionValues of the tree
  leaf_nodes_by_tree, \* tree index -> (query row -> node id)
  trees_by_sample,    \* empty, or query row -> (tree index -> BOOLEAN)
  ci_group_size,
  num_samples,        \* prediction_data->get_num_rows()
  \* ---- locals of collect_predictions
  sample,             \* the outer loop index
  predictions,
  cpc,                \* position in collect_predictions
  predict_calls,      \* history: the arguments of every strategy->predict
  variance_calls,     \* history: arguments and internals of every compute_variance
  \* ---- a call of TreeTrainer::create_split_variable_subset on its own
  subset_options,     \* the TreeOptions and data->get_num_cols() of the call
  subset_call,        \* history: the Poisson draw, the clamp and the result
  \* ---- a serializer round trip
  ser_value,          \* the object handed to serialize
  ser_stream,         \* the stream, a sequence of written items
  ser_result,         \* what deserialize returned
  ser_pc

trainVars == <<honesty, min_node_size, samples, data, observations, child_nodes,
               nodes, split_vars, split_values, new_leaf_samples, num_open_nodes,
               i, prediction_values, pc, split_samples, last_split>>
collectVars == <<forest, leaf_nodes_by_tree, trees_by_sample, ci_group_size,
                 num_samples, sample, predictions, cpc, predict_calls,
                 variance_calls>>
subsetVars == <<subset_options, subset_call>>
serialVars == <<ser_value, ser_stream, ser_result, ser_pc>>
auxVars == <<subsetVars, serialVars>>
vars == <<trainVars, collectVars, auxVars>>

-----------------------------------------------------------------------------
(* Bounds of the model *)
MaxSamples == 3      \* train is given the samples 0..n-1, n <= MaxSamples
MaxCells == 4        \* query rows * trees of a collect_predictions call

Columns == {0, 1}      \* the variable ids of data
NumCols == Cardinality(Columns)
DataValues == {0, 1}
SplitValues == {0, 1}
OutcomeRows == {<<0, 0, 0, 0>>, <<1, 2, 0, 3>>}
MinNodeSizes == {0, 1, 2}

-----------------------------------------------------------------------------
(* std::vector indexed from 0 *)
EmptyVec == [k \in {} |-> 0]
VSize(v) == Cardinality(DOMAIN v)
PushBack(v, x) == [k \in 0..VSize(v) |-> IF k \in DOMAIN v THEN v[k] ELSE x]
VecOf(n, x) == [k \in 0..(n - 1) |-> x]

Range(s) == {s[k] : k \in DOMAIN s}
NoDuplicates(s) == \A a, b \in DOMAIN s : a # b => s[a] # s[b]

\* the increasing sequence of the members of a finite set of numbers
RECURSIVE SetToSeq(_)
SetToSeq(S) ==
  IF S = {} THEN <<>>
  ELSE LET m == CHOOSE x \in S : \A y \in S : x <= y
       IN <<m>> \o SetToSeq(S \ {m})

\* the subsequence of s whose elements are in S
RECURSIVE SelectIn(_, _)
SelectIn(s, S) ==
  IF s = <<>> THEN <<>>
  ELSE (IF Head(s) \in S THEN <<Head(s)>> ELSE <<>>) \o SelectIn(Tail(s), S)

-----------------------------------------------------------------------------
(* double: num/den in lowest terms, den > 0; den = 0 is +Inf (num 1),      *)
(* -Inf (num -1) or NaN (num 0)                                             *)
Abs(x) == IF x < 0 THEN -x ELSE x
Sign(x) == IF x < 0 THEN -1 ELSE IF x > 0 THEN 1 ELSE 0

RECURSIVE Gcd(_, _)
Gcd(a, b) == IF b = 0 THEN a ELSE Gcd(b, a % b)

Norm(n, d) ==
  IF d = 0 THEN [num |-> Sign(n), den |-> 0]
  ELSE LET g == Gcd(Abs(n), d) IN [num |-> n \div g, den |-> d \div g]

Num(k) == [num |-> k, den |-> 1]
NaN == [num |-> 0, den |-> 0]
IsNaN(a) == a.den = 0 /\ a.num = 0
IsInf(a) == a.den = 0 /\ a.num # 0

Mul(a, b) == Norm(a.num * b.num, a.den * b.den)
Neg(a) == [num |-> -a.num, den |-> a.den]
Add(a, b) ==
  IF IsInf(a) /\ IsInf(b) THEN (IF a.num = b.num THEN a ELSE NaN)
  ELSE Norm(a.num * b.den + b.num * a.den, a.den * b.den)
Sub(a, b) == Add(a, Neg(b))
Inv(a) == IF a.num = 0 /\ a.den # 0 THEN [num |-> 1, den |-> 0]
          ELSE Norm(Sign(a.num) * a.den, Abs(a.num))
Div(a, b) == Mul(a, Inv(b))

(* Eigen::MatrixXd: rows, cols and the coefficients in storage order *)
Matrix(r, c, coef) == [rows |-> r, cols |-> c, coef |-> coef]
MatConstant(r, c, x) == Matrix(r, c, [k \in 1..(r * c) |-> x])
MatZero(r, c) == MatConstant(r, c, Num(0))
MatAdd(a, b) == Matrix(a.rows, a.cols, [k \in 1..(a.rows * a.cols) |-> Add(a.coef[k], b.coef[k])])
MatDiv(a, x) == Matrix(a.rows, a.cols, [k \in 1..(a.rows * a.cols) |-> Div(a.coef[k], x)])
\* m(0,0)
Coeff00(m) == m.coef[1]

-----------------------------------------------------------------------------
(* TreeOptions and the sampler *)
deterministic_vars == {}
no_split_variables == {}
split_select_vars == {}
split_select_weights == <<>>
PoissonDraws == 0..3

Min(a, b) == IF a < b THEN a ELSE b
Max(a, b) == IF a > b THEN a ELSE b

\* RandomSampler::subsample(samples, 0.5, subsamples, oob_samples): the pairs
\* <<subsamples, oob_samples>> it can produce; the rounding of an odd size is
\* left open
subsample(smp) ==
  LET n == Len(smp)
  IN {<<SelectIn(smp, S), SelectIn(smp, Range(smp) \ S)>> :
        S \in {T \in SUBSET Range(smp) :
                 Cardinality(T) \in {n \div 2, (n + 1) \div 2}}}

\* RandomSampler::draw_without_replacement_skip(result, max, skip, num_samples):
\* the results it can leave in result
draw_without_replacement_skip(result, max, skip, num) ==
  {result \cup D : D \in {T \in SUBSET ((0..(max - 1)) \ skip) : Cardinality(T) = num}}

\* RandomSampler::draw_without_replacement_weighted(result, indices, num_samples,
\* weights)
draw_without_replacement_weighted(result, indices, num) ==
  {result \cup D : D \in {T \in SUBSET indices : Cardinality(T) = num}}

\* the clamp without its lower end
clamp_mtry_no_floor(mtry_sample, num_independent_variables) ==
  Min(mtry_sample, num_independent_variables)

\* line 128: the clamp of the Poisson draw
clamp_mtry(mtry_sample, num_independent_variables) ==
  Max(Min(mtry_sample, num_independent_variables), 1)

\* TreeOptions as create_split_variable_subset reads them
TreeOptions(det, no_split, select_vars, weights) ==
  [deterministic_vars |-> det, no_split_variables |-> no_split,
   split_select_vars |-> select_vars, split_select_weights |-> weights]

\* create_split_variable_subset for given options and num_cols: every Poisson
\* draw with the clamp and the candidate set it can lead to
split_variable_subsets(options, num_cols) ==
  UNION {
    LET result == options.deterministic_vars
        num_independent_variables ==
          num_cols - Cardinality(options.no_split_variables)
        m == clamp_mtry(mtry_sample, num_independent_variables)
    IN {[mtry_sample |-> mtry_sample, split_mtry |-> m, result |-> r] :
          r \in IF options.split_select_weights = <<>>
                THEN draw_without_replacement_skip(result, num_cols,
                                                   options.no_split_variables, m)
                ELSE IF m > Cardinality(result)
                THEN draw_without_replacement_weighted(result, options.split_select_vars,
                                                       m - Cardinality(result))
                ELSE {result}}
    : mtry_sample \in PoissonDraws}

\* the clamp of the Poisson draw under the options of train
split_mtry(mtry_sample) ==
  clamp_mtry(mtry_sample, NumCols - Cardinality(no_split_variables))

\* the candidate sets create_split_variable_subset can produce in train
create_split_variable_subset ==
  {r.result : r \in split_variable_subsets(
                      TreeOptions(deterministic_vars, no_split_variables,
                                  split_select_vars, split_select_weights),
                      NumCols)}

-----------------------------------------------------------------------------
(* TreeTrainer *)

\* the four parallel arrays create_empty_node extends
Arrays(cn, smp, svars, svals) ==
  [child_nodes |-> cn, samples |-> smp, split_vars |-> svars, split_values |-> svals]

create_empty_node(arr) ==
  Arrays([c \in 0..1 |-> PushBack(arr.child_nodes[c], 0)],
         PushBack(arr.samples, <<>>),
         PushBack(arr.split_vars, 0),
         PushBack(arr.split_values, 0))

\* the pure-node loop of split_node_internal: no sample but the first differs
\* in OUTCOME[0] from the one before it
pure(node_samples) ==
  \A k \in 2..Len(node_samples) :
     observations[node_samples[k]][1] = observations[node_samples[k - 1]][1]

\* RelabelingStrategy::relabel: the mappings sample -> response it can return;
\* the empty mapping means "do not split"
relabel(node_samples) ==
  {[s \in Range(node_samples) |-> observations[s]], <<>>}

\* SplittingRule::find_best_split: TRUE (no split), or FALSE after writing
\* split_vars[node] and split_values[node] >= 0 for one of the candidate
\* variables, with at least one sample of the node on each side
find_best_split(node, possible_split_vars, smp, svars, svals) ==
  {[stop |-> TRUE, split_vars |-> svars, split_values |-> svals]}
  \cup
  {[stop |-> FALSE,
    split_vars |-> [svars EXCEPT ![node] = v],
    split_values |-> [svals EXCEPT ![node] = x]] :
     <<v, x>> \in {p \in possible_split_vars \X SplitValues :
                     /\ \E s \in Range(smp[node]) : data[s][p[1]] <= p[2]
                     /\ \E s \in Range(smp[node]) : ~(data[s][p[1]] <= p[2])}}

\* the node keeps its split value
Terminal_unmarked(node, svars, svals) ==
  [stop |-> TRUE, split_vars |-> svars, split_values |-> svals]

\* split_values[node] = -1.0; return true
Terminal(node, svars, svals) ==
  [stop |-> TRUE, split_vars |-> svars, split_values |-> [svals EXCEPT ![node] = -1]]

\* a node of exactly min_node_size samples is still split
too_small_strict(node_samples) == Len(node_samples) < min_node_size

\* line 207: the node size test
too_small(node_samples) == Len(node_samples) <= min_node_size

\* a result of split_node_internal with the steps it ran on the way, in order,
\* and what relabel returned (the empty mapping when it was not called)
Called(r, calls, responses_by_sample) ==
  [stop |-> r.stop, split_vars |-> r.split_vars, split_values |-> r.split_values,
   calls |-> calls, responses_by_sample |-> responses_by_sample]

\* the results split_node_internal can produce
split_node_internal(node, possible_split_vars, smp, svars, svals) ==
  IF too_small(smp[node])
  THEN {Called(Terminal(node, svars, svals), <<"size_test">>, <<>>)}
  ELSE IF pure(smp[node])
  THEN {Called(Terminal(node, svars, svals), <<"size_test", "pure_test">>, <<>>)}
  ELSE UNION {
         IF responses_by_sample = <<>>
         THEN {Called(Terminal(node, svars, svals),
                      <<"size_test", "pure_test", "relabel">>, responses_by_sample)}
         ELSE {Called(IF r.stop THEN Terminal(node, r.split_vars, r.split_values) ELSE r,
                      <<"size_test", "pure_test", "relabel", "find_best_split">>,
                      responses_by_sample) :
                 r \in find_best_split(node, possible_split_vars, smp, svars, svals)}
         : responses_by_sample \in relabel(smp[node])}

\* the partition loop of split_node: <= split_value goes left, the rest right
LeftSamples(node_samples, split_var, split_value) ==
  SelectIn(node_samples, {s \in Range(node_samples) : data[s][split_var] <= split_value})

\* the right child also takes the samples equal to split_value
RightSamples_ge(node_samples, split_var, split_value) ==
  SelectIn(node_samples, {s \in Range(node_samples) : data[s][split_var] >= split_value})

RightSamples(node_samples, split_var, split_value) ==
  SelectIn(node_samples, {s \in Range(node_samples) : ~(data[s][split_var] <= split_value)})

\* both children get the id read before the left child was created
CreateChildren_same_id(node, arr) ==
  LET left_child_node == VSize(arr.samples)
      a1 == create_empty_node(
              [arr EXCEPT !.child_nodes[0][node] = left_child_node])
  IN create_empty_node([a1 EXCEPT !.child_nodes[1][node] = left_child_node])

\* "Create child nodes": the arrays after the two children of node were recorded
\* and created
CreateChildren(node, arr) ==
  LET left_child_node == VSize(arr.samples)
      a1 == create_empty_node(
              [arr EXCEPT !.child_nodes[0][node] = left_child_node])
      right_child_node == VSize(a1.samples)
  IN create_empty_node([a1 EXCEPT !.child_nodes[1][node] = right_child_node])

\* lines 160-196 of split_node, after possible_split_vars was drawn: is_leaf,
\* the arrays it leaves and the steps that ran
split_node_from(node, arr, possible_split_vars) ==
  {IF r.stop
   THEN [is_leaf |-> TRUE,
         arr |-> Arrays(arr.child_nodes, arr.samples, r.split_vars, r.split_values),
         calls |-> r.calls,
         responses_by_sample |-> r.responses_by_sample,
         possible_split_vars |-> possible_split_vars]
   ELSE LET split_var == r.split_vars[node]
            split_value == r.split_values[node]
            a2 == CreateChildren(node,
                    Arrays(arr.child_nodes, arr.samples, r.split_vars, r.split_values))
            left == a2.child_nodes[0][node]
            right == a2.child_nodes[1][node]
        IN [is_leaf |-> FALSE,
            arr |-> [a2 EXCEPT
                       !.samples[left] = LeftSamples(arr.samples[node], split_var, split_value),
                       !.samples[right] = RightSamples(arr.samples[node], split_var, split_value)],
            calls |-> r.calls,
            responses_by_sample |-> r.responses_by_sample,
            possible_split_vars |-> possible_split_vars]
   : r \in split_node_internal(node, possible_split_vars, arr.samples,
                               arr.split_vars, arr.split_values)}

\* the steps of a split_node call: the sampler is asked first
WithSubsetFirst(r) == [r EXCEPT !.calls = <<"create_split_variable_subset">> \o @]

\* the candidate subset is drawn only for a node that passed the size and the
\* purity test
split_node_subset_late(node, arr) ==
  IF too_small(arr.samples[node]) \/ pure(arr.samples[node])
  THEN split_node_from(node, arr, {})
  ELSE UNION {
         {[r EXCEPT !.calls = <<"size_test", "pure_test", "create_split_variable_subset">>
                                \o SubSeq(@, 3, Len(@))] :
            r \in split_node_from(node, arr, possible_split_vars)}
         : possible_split_vars \in create_split_variable_subset}

\* the results split_node can produce
split_node(node, arr) ==
  UNION {
    {WithSubsetFirst(r) : r \in split_node_from(node, arr, possible_split_vars)}
    : possible_split_vars \in create_split_variable_subset}

\* Tree::find_leaf_nodes for one sample: from `node` down while the node is split
RECURSIVE find_leaf(_, _, _, _, _)
find_leaf(node, s, cn, svars, svals) ==
  IF svals[node] >= 0
  THEN find_leaf(IF data[s][svars[node]] <= svals[node] THEN cn[0][node] ELSE cn[1][node],
                 s, cn, svars, svals)
  ELSE node

\* Tree::find_leaf_nodes(data, samples): indexed by sample id
find_leaf_nodes(smp, cn, svars, svals) ==
  [s \in Range(smp) |-> find_leaf(0, s, cn, svars, svals)]

\* Tree::prune_empty_leaves: empty leaves keep their ids and their empty sample
\* lists
prune_empty_leaves(leaf_nodes) == leaf_nodes

\* repopulate_leaf_nodes: the tree's new leaf_nodes
repopulate_leaf_nodes(leaf_samples, cn, old_nodes, svars, svals) ==
  LET num_nodes == VSize(old_nodes)
      leaf_of == find_leaf_nodes(leaf_samples, cn, svars, svals)
      new_leaf_nodes ==
        [n \in 0..(num_nodes - 1) |->
           SelectIn(leaf_samples, {s \in Range(leaf_samples) : leaf_of[s] = n})]
  IN prune_empty_leaves(new_leaf_nodes)

-----------------------------------------------------------------------------
(* PredictionValues and RegressionPredictionStrategy *)
OUTCOME == 0
PredictionLength == 4        \* RegressionPredictionStrategy::prediction_length()
PredictionValueLength == 4   \* RegressionPredictionStrategy::prediction_value_length()
SummaryCols == 4             \* the width of the matrices precompute_prediction_values fills
StoredNumTypes == 1          \* the num_types precompute_prediction_values stores

\* PredictionValues(values, num_nodes, num_types)
PredictionValues(values, num_nodes, num_types) ==
  [values |-> values, num_nodes |-> num_nodes, num_types |-> num_types]
NoPredictionValues == PredictionValues(EmptyVec, 0, 0)

\* PredictionValues::empty(node)
pv_empty(pv, node) == Len(pv.values[node]) = 0
\* PredictionValues::get(node, type)
pv_get(pv, node, type) == pv.values[node][type + 1]
\* PredictionValues::get_values(node)
pv_get_values(pv, node) == pv.values[node]

\* Observations::get(OUTCOME, sample) as an Eigen::VectorXd
observations_get(s) ==
  Matrix(Len(observations[s]), 1, [k \in 1..Len(observations[s]) |-> Num(observations[s][k])])

\* the accumulation loop over one leaf: average += observations.get(OUTCOME, sample)
RECURSIVE leaf_sum(_, _)
leaf_sum(average, leaf_node) ==
  IF leaf_node = <<>> THEN average
  ELSE leaf_sum(MatAdd(average, observations_get(Head(leaf_node))), Tail(leaf_node))

\* the summary tuple stored for one leaf
leaf_averages(leaf_node) ==
  IF leaf_node = <<>> THEN <<>>
  ELSE <<MatDiv(leaf_sum(MatZero(1, SummaryCols), leaf_node), Num(Len(leaf_node)))>>

precompute_prediction_values(leaf_samples) ==
  LET num_leaves == VSize(leaf_samples)
  IN PredictionValues([n \in 0..(num_leaves - 1) |-> leaf_averages(leaf_samples[n])],
                      num_leaves, StoredNumTypes)

-----------------------------------------------------------------------------
(* TreeTrainer::train, one action per step; prediction_strategy is the       *)
(* RegressionPredictionStrategy                                             *)

TrainInit ==
  /\ honesty \in BOOLEAN
  /\ min_node_size \in MinNodeSizes
  /\ \E n \in 0..MaxSamples :
       /\ samples = SetToSeq(0..(n - 1))
       /\ data \in [0..(n - 1) -> [Columns -> DataValues]]
       /\ observations \in [0..(n - 1) -> OutcomeRows]
  /\ child_nodes = [c \in 0..1 |-> EmptyVec]
  /\ nodes = EmptyVec
  /\ split_vars = EmptyVec
  /\ split_values = EmptyVec
  /\ new_leaf_samples = <<>>
  /\ num_open_nodes = 0
  /\ i = 0
  /\ prediction_values = NoPredictionValues
  /\ split_samples = <<>>
  /\ last_split = <<>>
  /\ pc = "start"

TrainIdle ==
  /\ honesty = FALSE
  /\ min_node_size = 0
  /\ samples = <<>>
  /\ data = EmptyVec
  /\ observations = EmptyVec
  /\ child_nodes = [c \in 0..1 |-> EmptyVec]
  /\ nodes = EmptyVec
  /\ split_vars = EmptyVec
  /\ split_values = EmptyVec
  /\ new_leaf_samples = <<>>
  /\ num_open_nodes = 0
  /\ i = 0
  /\ prediction_values = NoPredictionValues
  /\ split_samples = <<>>
  /\ last_split = <<>>
  /\ pc = "off"

SetArrays(arr) ==
  /\ child_nodes' = arr.child_nodes
  /\ nodes' = arr.samples
  /\ split_vars' = arr.split_vars
  /\ split_values' = arr.split_values

\* lines 37-57: the root, the honesty split, the loop counters
TrainBegin ==
  /\ pc = "start"
  /\ LET root == create_empty_node(Arrays([c \in 0..1 |-> EmptyVec], EmptyVec,
                                          EmptyVec, EmptyVec))
     IN IF honesty
        THEN \E p \in subsample(samples) :
               /\ SetArrays([root EXCEPT !.samples[0] = p[1]])
               /\ new_leaf_samples' = p[2]
               /\ split_samples' = p[1]
        ELSE /\ SetArrays([root EXCEPT !.samples[0] = samples])
             /\ new_leaf_samples' = <<>>
             /\ split_samples' = samples
  /\ num_open_nodes' = 1
  /\ i' = 0
  /\ pc' = "loop"
  /\ UNCHANGED <<collectVars, auxVars, honesty, min_node_size, samples, data, observations,
                 prediction_values, last_split>>

\* both new children are counted, the processed node is not taken off
open_after_both_children(is_leaf_node, open) ==
  IF is_leaf_node THEN open - 1 ELSE open + 2

\* lines 69-74: num_open_nodes after split_node returned is_leaf_node
open_after(is_leaf_node, open) ==
  IF is_leaf_node THEN open - 1 ELSE open + 1

\* lines 58-76: one iteration of the worklist loop
SplitNode ==
  /\ pc = "loop"
  /\ num_open_nodes > 0
  /\ \E r \in split_node(i, Arrays(child_nodes, nodes, split_vars, split_values)) :
       /\ IF r.is_leaf
          THEN SetArrays(r.arr)
          ELSE SetArrays([r.arr EXCEPT !.samples[i] = <<>>])
       /\ num_open_nodes' = open_after(r.is_leaf, num_open_nodes)
       /\ last_split' = [node |-> i, samples |-> nodes[i], is_leaf |-> r.is_leaf,
                         calls |-> r.calls,
                         responses_by_sample |-> r.responses_by_sample,
                         possible_split_vars |-> r.possible_split_vars]
  /\ i' = i + 1
  /\ UNCHANGED <<collectVars, auxVars, honesty, min_node_size, samples, data, observations, new_leaf_samples,
                 prediction_values, pc, split_samples>>

\* lines 78-88: the Tree is built and, if samples were held out, repopulated
Repopulate ==
  /\ pc = "loop"
  /\ num_open_nodes = 0
  /\ nodes' = IF new_leaf_samples # <<>>
              THEN repopulate_leaf_nodes(new_leaf_samples, child_nodes, nodes,
                                         split_vars, split_values)
              ELSE nodes
  /\ pc' = "tree"
  /\ UNCHANGED <<collectVars, auxVars, honesty, min_node_size, samples, data, observations, child_nodes,
                 split_vars, split_values, new_leaf_samples, num_open_nodes, i,
                 prediction_values, split_samples, last_split>>

\* lines 90-97: the leaf summaries are attached and the tree is returned
Precompute ==
  /\ pc = "tree"
  /\ prediction_values' = precompute_prediction_values(nodes)
  /\ pc' = "done"
  /\ UNCHANGED <<collectVars, auxVars, honesty, min_node_size, samples, data, observations, child_nodes,
                 nodes, split_vars, split_values, new_leaf_samples, num_open_nodes, i,
                 split_samples, last_split>>

\* RegressionPredictionStrategy.cpp line 119 adds a column vector to a 1 x 4
\* matrix: a build with Eigen's size assertions stops there
PrecomputeAbort ==
  /\ pc = "tree"
  /\ \E n \in DOMAIN nodes : nodes[n] # <<>>
  /\ pc' = "aborted"
  /\ UNCHANGED <<collectVars, auxVars, honesty, min_node_size, samples, data, observations, child_nodes,
                 nodes, split_vars, split_values, new_leaf_samples, num_open_nodes, i,
                 prediction_values, split_samples, last_split>>

-----------------------------------------------------------------------------
CollectIdle ==
  /\ forest = EmptyVec
  /\ leaf_nodes_by_tree = EmptyVec
  /\ trees_by_sample = EmptyVec
  /\ ci_group_size = 1
  /\ num_samples = 0
  /\ sample = 0
  /\ predictions = <<>>
  /\ cpc = "off"
  /\ predict_calls = <<>>
  /\ variance_calls = <<>>

\* no call of create_split_variable_subset on its own
SubsetIdle ==
  /\ subset_options = [options |-> TreeOptions({}, {}, {}, <<>>), num_cols |-> 0]
  /\ subset_call = <<>>

\* no serializer at work
SerialIdle ==
  /\ ser_value = <<>>
  /\ ser_stream = <<>>
  /\ ser_result = <<>>
  /\ ser_pc = "off"

AuxIdle == SubsetIdle /\ SerialIdle

InitTrain == TrainInit /\ CollectIdle /\ AuxIdle

NextTrain ==
  \/ TrainBegin
  \/ SplitNode
  \/ Repopulate
  \/ Precompute
  \/ PrecomputeAbort

SpecTrain == InitTrain /\ [][NextTrain]_vars

-----------------------------------------------------------------------------
(* The tree as the claims read it *)
NodeIds == DOMAIN nodes
HasChildren(n) == child_nodes[0][n] # 0 \/ child_nodes[1][n] # 0
IsLeaf(n) == ~HasChildren(n)
Leaves == {n \in NodeIds : IsLeaf(n)}

\* the nodes of the subtree rooted at n
RECURSIVE Subtree(_)
Subtree(n) ==
  IF HasChildren(n)
  THEN {n} \cup Subtree(child_nodes[0][n]) \cup Subtree(child_nodes[1][n])
  ELSE {n}

SamplesUnder(n) == UNION {Range(nodes[m]) : m \in Subtree(n)}
LeafUnion == UNION {Range(nodes[n]) : n \in Leaves}
LeavesDisjoint ==
  /\ \A n \in Leaves : NoDuplicates(nodes[n])
  /\ \A n, m \in Leaves : n # m => Range(nodes[n]) \cap Range(nodes[m]) = {}
Returned == pc = "done"

\* C1: in every returned tree the leaf sample sets are pairwise disjoint, hold no
\* sample twice, and their union is the set of samples that reached the tree:
\* samples without honesty, the held-out new_leaf_samples with honesty.
C1_LeafPartition ==
  Returned =>
    /\ LeavesDisjoint
    /\ LeafUnion = (IF honesty THEN Range(new_leaf_samples) ELSE Range(samples))

\* C2: with honesty, the samples placed in node 0 to choose the splits are
\* disjoint from the samples that populate the leaves of the returned tree,
\* whatever the size of the input.
C2_HonestySeparation ==
  (Returned /\ honesty) => Range(split_samples) \cap LeafUnion = {}

C10_ChildIds ==
  /\ \A n \in NodeIds :
       HasChildren(n) =>
         /\ child_nodes[0][n] > n /\ child_nodes[0][n] \in NodeIds
         /\ child_nodes[1][n] > n /\ child_nodes[1][n] \in NodeIds
         /\ child_nodes[0][n] # child_nodes[1][n]
  /\ \A n \in NodeIds, c \in 0..1 : HasChildren(n) => child_nodes[c][n] # 0
  /\ \A m \in NodeIds \ {0} :
       Cardinality({p \in NodeIds \X (0..1) : child_nodes[p[2]][p[1]] = m}) = 1

\* a returned tree with two levels of splits
C10_Witness ==
  /\ Returned
  /\ \E n \in NodeIds : HasChildren(n) /\ HasChildren(child_nodes[1][n])

-----------------------------------------------------------------------------
(* RegressionPredictionStrategy at prediction time *)

\* an Eigen::MatrixXd returned or assigned as an Eigen::VectorXd: its coefficients
AsVector(m) == m.coef
\* Eigen::VectorXd::Constant(n, x)
VecConstant(n, x) == [k \in 1..n |-> x]

\* RegressionPredictionStrategy::predict
predict(average) == AsVector(average[OUTCOME + 1])

\* BayesDebiaser::debias, a closed form of its three arguments
debias(var_between, group_noise, num_good_groups) ==
  [debias |-> <<var_between, group_noise, num_good_groups>>]

\* line 46-50: no slot of the group is empty
good_group(leaf_values, group, cgs) ==
  \A j \in 0..(cgs - 1) : ~pv_empty(leaf_values, group * cgs + j)

\* lines 57-63: the inner loop from slot j on; acc = [psi_squared, group_psi]
RECURSIVE group_loop(_, _, _, _, _, _)
group_loop(leaf_values, average_outcome, group, cgs, j, acc) ==
  IF j < cgs
  THEN LET psi_1 == Sub(Coeff00(pv_get(leaf_values, group * cgs + j, OUTCOME)),
                        average_outcome)
       IN group_loop(leaf_values, average_outcome, group, cgs, j + 1,
                     [psi_squared |-> Add(acc.psi_squared, Mul(psi_1, psi_1)),
                      group_psi |-> Add(acc.group_psi, psi_1)])
  ELSE acc

\* lines 44-67: the loop over the groups from `group` on;
\* acc = [num_good_groups, psi_squared, psi_grouped_squared]
RECURSIVE variance_loop(_, _, _, _, _)
variance_loop(leaf_values, average_outcome, cgs, group, acc) ==
  IF group < leaf_values.num_nodes \div cgs
  THEN IF ~good_group(leaf_values, group, cgs)
       THEN variance_loop(leaf_values, average_outcome, cgs, group + 1, acc)
       ELSE LET g == group_loop(leaf_values, average_outcome, group, cgs, 0,
                                [psi_squared |-> acc.psi_squared, group_psi |-> Num(0)])
                group_psi == Div(g.group_psi, Num(cgs))
            IN variance_loop(leaf_values, average_outcome, cgs, group + 1,
                 [num_good_groups |-> acc.num_good_groups + 1,
                  psi_squared |-> g.psi_squared,
                  psi_grouped_squared |-> Add(acc.psi_grouped_squared,
                                              Mul(group_psi, group_psi))])
  ELSE acc

\* var_total divided by the number of groups instead of the number of leaves
var_total_of_per_group(psi_squared, num_good_groups, cgs) ==
  Div(psi_squared, Num(num_good_groups))

\* line 70
var_total_of(psi_squared, num_good_groups, cgs) ==
  Div(psi_squared, Num(num_good_groups * cgs))

\* a guard that returns 0 when no group is complete
var_between_of_guarded(psi_grouped_squared, num_good_groups) ==
  IF num_good_groups = 0 THEN Num(0)
  ELSE Div(psi_grouped_squared, Num(num_good_groups))

\* line 69
var_between_of(psi_grouped_squared, num_good_groups) ==
  Div(psi_grouped_squared, Num(num_good_groups))

\* RegressionPredictionStrategy::compute_variance: its locals and, in result,
\* the vector it returns
compute_variance(average, leaf_values, cgs) ==
  LET average_outcome == Coeff00(average[OUTCOME + 1])
      acc == variance_loop(leaf_values, average_outcome, cgs, 0,
                           [num_good_groups |-> 0, psi_squared |-> Num(0),
                            psi_grouped_squared |-> Num(0)])
      var_between == var_between_of(acc.psi_grouped_squared, acc.num_good_groups)
      var_total == var_total_of(acc.psi_squared, acc.num_good_groups, cgs)
      group_noise == Div(Sub(var_total, var_between), Num(cgs - 1))
      var_debiased == debias(var_between, group_noise, acc.num_good_groups)
  IN [num_good_groups |-> acc.num_good_groups,
      psi_squared |-> acc.psi_squared,
      psi_grouped_squared |-> acc.psi_grouped_squared,
      var_between |-> var_between,
      var_total |-> var_total,
      group_noise |-> group_noise,
      result |-> VecConstant(1, var_debiased)]

-----------------------------------------------------------------------------
(* OptimizedPredictionCollector *)

\* Prediction(predictions) and Prediction(predictions, variance_estimates)
Prediction(point, variance) == [predictions |-> point, variance_estimates |-> variance]
\* Prediction::size()
prediction_size(p) == Len(p.predictions)

num_trees == VSize(forest)

\* the mask is never consulted
excluded_never(s, tree_index) == FALSE

\* the trees the mask names are the ones skipped
excluded_inverted(s, tree_index) ==
  trees_by_sample # EmptyVec /\ trees_by_sample[s][tree_index]

\* line 45: the tree is skipped for the row
excluded(s, tree_index) ==
  trees_by_sample # EmptyVec /\ ~trees_by_sample[s][tree_index]

add_prediction_values(node, pv, combined_average) ==
  LET sized == IF combined_average = <<>>
               THEN [type \in 1..pv.num_types |->
                       MatZero(pv_get(pv, node, type - 1).rows,
                               pv_get(pv, node, type - 1).cols)]
               ELSE combined_average
  IN [type \in 1..Len(sized) |->
        IF type <= pv.num_types THEN MatAdd(sized[type], pv_get(pv, node, type - 1))
        ELSE sized[type]]

\* the average taken over all trees instead of the contributing leaves
normalize_by_num_trees(num_leaves, combined_average) ==
  [type \in 1..Len(combined_average) |-> MatDiv(combined_average[type], Num(num_trees))]

normalize_prediction_values(num_leaves, combined_average) ==
  [type \in 1..Len(combined_average) |-> MatDiv(combined_average[type], Num(num_leaves))]

\* lines 36-40: the accumulators of a row before the loop over the trees
RowStart ==
  [num_leaves |-> 0,
   average_value |-> <<>>,
   leaf_values |-> IF ci_group_size > 1 THEN VecOf(num_trees, <<>>) ELSE EmptyVec]

\* lines 44-62: the loop over the trees from tree_index on
RECURSIVE tree_loop(_, _, _)
tree_loop(s, tree_index, acc) ==
  IF tree_index < num_trees
  THEN IF excluded(s, tree_index)
       THEN tree_loop(s, tree_index + 1, acc)
       ELSE LET node == leaf_nodes_by_tree[tree_index][s]
                pv == forest[tree_index]
            IN IF ~pv_empty(pv, node)
               THEN tree_loop(s, tree_index + 1,
                      [num_leaves |-> acc.num_leaves + 1,
                       average_value |-> add_prediction_values(node, pv, acc.average_value),
                       leaf_values |-> IF ci_group_size > 1
                                       THEN [acc.leaf_values EXCEPT
                                               ![tree_index] = pv_get_values(pv, node)]
                                       ELSE acc.leaf_values])
               ELSE tree_loop(s, tree_index + 1, acc)
  ELSE acc

\* a validation that accepts every length
validate_prediction_never(prediction) == FALSE

\* validate_prediction: TRUE when it throws
validate_prediction_throws(prediction) == prediction_size(prediction) # PredictionLength

\* a placeholder of zeros
placeholder_prediction_zeros == Prediction(VecConstant(PredictionLength, Num(0)), <<>>)

\* lines 67-68: the placeholder of a row without neighbours
placeholder_prediction == Prediction(VecConstant(PredictionLength, NaN), <<>>)

\* lines 36-83 for one row: what the loop over the trees leaves, and, for a row
\* with contributing leaves, what is handed to and returned by the strategy
collect_row(s) ==
  LET acc == tree_loop(s, 0, RowStart)
  IN IF acc.num_leaves = 0
     THEN [num_leaves |-> 0, prediction |-> placeholder_prediction]
     ELSE LET average_value == normalize_prediction_values(acc.num_leaves,
                                                           acc.average_value)
              point_prediction == predict(average_value)
              leaf_prediction_values ==
                PredictionValues(acc.leaf_values, num_trees, PredictionValueLength)
          IN IF ci_group_size > 1
             THEN LET v == compute_variance(average_value, leaf_prediction_values,
                                            ci_group_size)
                  IN [num_leaves |-> acc.num_leaves,
                      average_value |-> average_value,
                      variance_call |-> <<[sample |-> s,
                                           average |-> average_value,
                                           leaf_values |-> leaf_prediction_values,
                                           ci_group_size |-> ci_group_size,
                                           locals |-> v]>>,
                      prediction |-> Prediction(point_prediction, v.result)]
             ELSE [num_leaves |-> acc.num_leaves,
                   average_value |-> average_value,
                   variance_call |-> <<>>,
                   prediction |-> Prediction(point_prediction, <<>>)]

\* the forests of the model: every tree has an empty node 0 and two leaves
\* whose summaries are 1 x cols matrices
LeafOutcomes == <<1, -1>>
CiGroupSizes == {1, 2, 3}
SummaryShapes == {1, SummaryCols}
TreeValues(cols) ==
  PredictionValues(
    [n \in 0..Len(LeafOutcomes) |->
       IF n = 0 THEN <<>>
       ELSE <<Matrix(1, cols, [k \in 1..cols |-> Num(LeafOutcomes[n] + k - 1)])>>],
    Len(LeafOutcomes) + 1, StoredNumTypes)

CollectInit ==
  /\ ci_group_size \in CiGroupSizes
  /\ \E r \in 0..MaxCells, t \in 0..MaxCells, cols \in SummaryShapes :
       /\ r * t <= MaxCells
       /\ num_samples = r
       /\ forest = VecOf(t, TreeValues(cols))
       /\ leaf_nodes_by_tree \in [0..(t - 1) -> [0..(r - 1) -> 0..Len(LeafOutcomes)]]
       /\ trees_by_sample \in {EmptyVec} \cup [0..(r - 1) -> [0..(t - 1) -> BOOLEAN]]
  /\ sample = 0
  /\ predictions = <<>>
  /\ cpc = "run"
  /\ predict_calls = <<>>
  /\ variance_calls = <<>>

\* lines 64-70: a row with no contributing leaf gets the placeholder
RowPlaceholder ==
  /\ cpc = "run" /\ sample < num_samples
  /\ \E row \in {collect_row(sample)} :
       /\ row.num_leaves = 0
       /\ predictions' = Append(predictions, row.prediction)
  /\ sample' = sample + 1
  /\ UNCHANGED <<trainVars, auxVars, forest, leaf_nodes_by_tree, trees_by_sample, ci_group_size,
                 num_samples, cpc, predict_calls, variance_calls>>

\* the calls of strategy->predict and strategy->compute_variance of a row
LogCalls(row) ==
  /\ predict_calls' = Append(predict_calls,
                             [sample |-> sample, average |-> row.average_value])
  /\ variance_calls' = variance_calls \o row.variance_call

\* lines 72-83: the row is predicted and its prediction passes validation
RowPredict ==
  /\ cpc = "run" /\ sample < num_samples
  /\ \E row \in {collect_row(sample)} :
       /\ row.num_leaves # 0
       /\ ~validate_prediction_throws(row.prediction)
       /\ LogCalls(row)
       /\ predictions' = Append(predictions, row.prediction)
  /\ sample' = sample + 1
  /\ UNCHANGED <<trainVars, auxVars, forest, leaf_nodes_by_tree, trees_by_sample, ci_group_size,
                 num_samples, cpc>>

\* lines 72-82: validate_prediction throws and collect_predictions returns nothing
RowThrow ==
  /\ cpc = "run" /\ sample < num_samples
  /\ \E row \in {collect_row(sample)} :
       /\ row.num_leaves # 0
       /\ validate_prediction_throws(row.prediction)
       /\ LogCalls(row)
  /\ cpc' = "thrown"
  /\ UNCHANGED <<trainVars, auxVars, forest, leaf_nodes_by_tree, trees_by_sample, ci_group_size,
                 num_samples, sample, predictions>>

\* line 85
CollectReturn ==
  /\ cpc = "run" /\ ~(sample < num_samples)
  /\ cpc' = "returned"
  /\ UNCHANGED <<trainVars, auxVars, forest, leaf_nodes_by_tree, trees_by_sample, ci_group_size,
                 num_samples, sample, predictions, predict_calls, variance_calls>>

InitCollect == CollectInit /\ TrainIdle /\ AuxIdle

NextCollect ==
  \/ RowPlaceholder
  \/ RowPredict
  \/ RowThrow
  \/ CollectReturn

SpecCollect == InitCollect /\ [][NextCollect]_vars

-----------------------------------------------------------------------------
(* The collector as the claims read it *)
QueryRows == 0..(num_samples - 1)
TreeIds == 0..(num_trees - 1)
Included(s, t) == trees_by_sample = EmptyVec \/ trees_by_sample[s][t]
LeafSummary(s, t) == forest[t].values[leaf_nodes_by_tree[t][s]]
\* the trees that contribute to row s
Contributing(s) == {t \in TreeIds : Included(s, t) /\ LeafSummary(s, t) # <<>>}

\* the sum of a function's values, in no particular order
RECURSIVE SumFn(_)
SumFn(f) ==
  IF DOMAIN f = {} THEN Num(0)
  ELSE LET x == CHOOSE x \in DOMAIN f : TRUE
       IN Add(f[x], SumFn([y \in DOMAIN f \ {x} |-> f[y]]))

\* the element-wise mean of the summaries of type `type` over the trees of S
MeanSummary(s, S, type) ==
  LET proto == LeafSummary(s, CHOOSE t \in S : TRUE)[type]
  IN Matrix(proto.rows, proto.cols,
            [k \in 1..(proto.rows * proto.cols) |->
               Div(SumFn([t \in S |-> LeafSummary(s, t)[type].coef[k]]),
                   Num(Cardinality(S)))])

\* C4: a row with no contributing leaf gets a point vector of prediction_length()
\* NaNs and no variance vector, whatever ci_group_size is; it raises nothing, and
\* neither predict nor compute_variance is called for it.
C4_EmptyRowPlaceholder ==
  \A s \in QueryRows :
    Contributing(s) = {} =>
      /\ s < sample =>
           /\ Len(predictions[s + 1].predictions) = PredictionLength
           /\ \A k \in 1..PredictionLength : IsNaN(predictions[s + 1].predictions[k])
           /\ predictions[s + 1].variance_estimates = <<>>
      /\ \A k \in DOMAIN predict_calls : predict_calls[k].sample # s
      /\ \A k \in DOMAIN variance_calls : variance_calls[k].sample # s
      /\ ~(cpc = "thrown" /\ sample = s)
      /\ (cpc = "returned" => s < sample)

\* a returned call with variance requested, and a row that every tree skips or
\* answers with an empty leaf
C4_Witness ==
  /\ cpc = "returned" /\ ci_group_size > 1 /\ num_trees >= 2
  /\ \E s \in QueryRows :
       /\ Contributing(s) = {}
       /\ \E t \in TreeIds : ~Included(s, t)
       /\ \E t \in TreeIds : Included(s, t)

\* C5: what collect_predictions returns holds one Prediction per query row, in
\* row order, each with a point vector of prediction_length() entries; when the
\* strategy's point prediction of a row has another length it throws and
\* returns nothing.
C5_PredictionShape ==
  /\ cpc = "returned" =>
       /\ Len(predictions) = num_samples
       /\ \A s \in QueryRows :
            /\ Len(predictions[s + 1].predictions) = PredictionLength
            /\ Contributing(s) # {} =>
                 predictions[s + 1].predictions =
                   AsVector(MeanSummary(s, Contributing(s), OUTCOME + 1))
            /\ Contributing(s) = {} =>
                 \A k \in 1..PredictionLength : IsNaN(predictions[s + 1].predictions[k])
  /\ (\E s \in QueryRows :
        /\ Contributing(s) # {}
        /\ Len(AsVector(MeanSummary(s, Contributing(s), OUTCOME + 1))) # PredictionLength)
     => cpc # "returned"
  /\ cpc = "thrown" =>
       /\ Contributing(sample) # {}
       /\ Len(AsVector(MeanSummary(sample, Contributing(sample), OUTCOME + 1)))
            # PredictionLength

\* a returned call of two or more rows, one predicted and one placeholder
C5_Witness ==
  /\ cpc = "returned" /\ num_samples >= 2
  /\ \E s \in QueryRows : Contributing(s) # {}
  /\ \E s \in QueryRows : Contributing(s) = {}

\* C6: the average handed to predict for a row is, per summary type, the sum of
\* the summaries of the trees that are included for the row and reach a non-empty
\* leaf, divided by the number of those trees.
C6_AverageOverContributing ==
  /\ \A k \in DOMAIN predict_calls :
       LET c == predict_calls[k]
           S == Contributing(c.sample)
       IN /\ S # {}
          /\ Len(c.average) = StoredNumTypes
          /\ \A type \in 1..StoredNumTypes : c.average[type] = MeanSummary(c.sample, S, type)
  /\ \A s \in QueryRows :
       (Contributing(s) # {} /\ s < sample) =>
         \E k \in DOMAIN predict_calls : predict_calls[k].sample = s

\* a call of predict for a row with two contributing trees of different
\* summaries, a tree the mask excludes and a tree that reaches an empty leaf
C6_Witness ==
  \E k \in DOMAIN predict_calls :
    LET s == predict_calls[k].sample
    IN /\ \E t, u \in Contributing(s) : LeafSummary(s, t) # LeafSummary(s, u)
       /\ \E t \in TreeIds : ~Included(s, t)
       /\ \E t \in TreeIds : Included(s, t) /\ LeafSummary(s, t) = <<>>

\* C8: the variance vector of a Prediction that carries one is as long as its
\* point vector, prediction_length().
C8_VarianceLength ==
  \A k \in DOMAIN predictions :
    predictions[k].variance_estimates # <<>> =>
      /\ Len(predictions[k].variance_estimates) = Len(predictions[k].predictions)
      /\ Len(predictions[k].variance_estimates) = PredictionLength

\* the complete groups of a compute_variance call, and its per-slot psi
GoodGroups(c) ==
  {g \in 0..((c.leaf_values.num_nodes \div c.ci_group_size) - 1) :
     \A j \in 0..(c.ci_group_size - 1) :
        c.leaf_values.values[g * c.ci_group_size + j] # <<>>}
Psi(c, g, j) ==
  Sub(c.leaf_values.values[g * c.ci_group_size + j][OUTCOME + 1].coef[1],
      c.average[OUTCOME + 1].coef[1])
GroupMeanPsi(c, g) ==
  Div(SumFn([j \in 0..(c.ci_group_size - 1) |-> Psi(c, g, j)]), Num(c.ci_group_size))

\* C9: compute_variance counts and accumulates only the groups without an empty
\* slot; over them psi_squared is the sum of (leaf - average)^2 and
\* psi_grouped_squared the sum of the squared group means of (leaf - average);
\* var_between = psi_grouped_squared / num_good_groups, var_total = psi_squared /
\* (num_good_groups * ci_group_size), group_noise = (var_total - var_between) /
\* (ci_group_size - 1).  Leaves 1, 1, -1, -1 around 0 in groups of 2 give
\* 4, 2, 1, 1, 0.
C9_VarianceLocals ==
  \A k \in DOMAIN variance_calls :
    LET c == variance_calls[k]
        G == GoodGroups(c)
        n == Cardinality(G)
        l == c.locals
    IN /\ l.num_good_groups = n
       /\ l.psi_squared =
            SumFn([p \in G \X (0..(c.ci_group_size - 1)) |->
                     Mul(Psi(c, p[1], p[2]), Psi(c, p[1], p[2]))])
       /\ l.psi_grouped_squared =
            SumFn([g \in G |-> Mul(GroupMeanPsi(c, g), GroupMeanPsi(c, g))])
       /\ l.var_between = Div(l.psi_grouped_squared, Num(n))
       /\ l.var_total = Div(l.psi_squared, Num(n * c.ci_group_size))
       /\ l.group_noise = Div(Sub(l.var_total, l.var_between), Num(c.ci_group_size - 1))
       /\ (/\ c.ci_group_size = 2
           /\ c.leaf_values.num_nodes = 4
           /\ c.average[OUTCOME + 1].coef[1] = Num(0)
           /\ \A t \in 0..3 : c.leaf_values.values[t] # <<>>
           /\ \A t \in 0..3 : c.leaf_values.values[t][OUTCOME + 1].coef[1]
                                = Num(IF t < 2 THEN 1 ELSE -1))
          => /\ l.psi_squared = Num(4)
             /\ l.psi_grouped_squared = Num(2)
             /\ l.var_between = Num(1)
             /\ l.var_total = Num(1)
             /\ l.group_noise = Num(0)

\* the call with leaves 1, 1, -1, -1 around 0 in groups of 2
C9_Witness ==
  \E k \in DOMAIN variance_calls :
    LET c == variance_calls[k]
    IN /\ c.ci_group_size = 2
       /\ c.leaf_values.num_nodes = 4
       /\ c.average[OUTCOME + 1].coef[1] = Num(0)
       /\ \A t \in 0..3 : c.leaf_values.values[t] # <<>>
       /\ \A t \in 0..3 : c.leaf_values.values[t][OUTCOME + 1].coef[1]
                            = Num(IF t < 2 THEN 1 ELSE -1)

\* a call in which one group is skipped for an empty slot and another is counted
C9_SkippedGroupReached ==
  \E k \in DOMAIN variance_calls :
    LET c == variance_calls[k]
    IN /\ GoodGroups(c) # {}
       /\ Cardinality(GoodGroups(c)) < c.leaf_values.num_nodes \div c.ci_group_size

-----------------------------------------------------------------------------
\* the arithmetic mean of OUTCOME[0] over the samples of a leaf
LeafMean(leaf_node) ==
  Div(SumFn([k \in DOMAIN leaf_node |-> Num(observations[leaf_node[k]][1])]),
      Num(Len(leaf_node)))

\* C7: precompute_prediction_values stores one entry per node: for a leaf with
\* samples a single 1 x 1 matrix holding the mean of their outcomes, for a node
\* without samples an empty summary.
C7_LeafSummaries ==
  Returned =>
    /\ prediction_values.num_nodes = VSize(nodes)
    /\ DOMAIN prediction_values.values = NodeIds
    /\ \A n \in NodeIds :
         IF nodes[n] = <<>>
         THEN pv_empty(prediction_values, n)
         ELSE /\ Len(prediction_values.values[n]) = 1
              /\ pv_get(prediction_values, n, OUTCOME).rows = 1
              /\ pv_get(prediction_values, n, OUTCOME).cols = 1
              /\ Coeff00(pv_get(prediction_values, n, OUTCOME)) = LeafMean(nodes[n])

-----------------------------------------------------------------------------
(* The nodes of the tree and the split decision as the claims read them *)

\* split_node has returned for node n
Processed(n) == pc \in {"tree", "done"} \/ (pc = "loop" /\ n < i)
TerminalNode(n) ==
  split_values[n] = -1 /\ child_nodes[0][n] = 0 /\ child_nodes[1][n] = 0
InternalNode(n) ==
  /\ split_values[n] >= 0
  /\ child_nodes[0][n] \in NodeIds /\ child_nodes[1][n] \in NodeIds
  /\ nodes[n] = <<>>

AllOutcomesEqual(node_samples) ==
  \A a, b \in Range(node_samples) : observations[a][1] = observations[b][1]
Ran(step) == \E k \in DOMAIN last_split.calls : last_split.calls[k] = step

C12_PureNodeReached ==
  /\ last_split # <<>>
  /\ Len(last_split.samples) > min_node_size
  /\ Len(last_split.samples) >= 2
  /\ AllOutcomesEqual(last_split.samples)
  /\ \E a, b \in Range(last_split.samples) : data[a] # data[b]

IsPrefix(a, b) == Len(a) <= Len(b) /\ a = SubSeq(b, 1, Len(a))
PassesTests(node_samples) ==
  ~(Len(node_samples) <= min_node_size) /\ ~AllOutcomesEqual(node_samples)

\* C17 as stated: the steps of a node run in the order size test, pure test,
\* candidate subset, relabel, find_best_split, each reached only if no earlier
\* one made the node terminal: the sampler is asked for a subset only for nodes
\* that pass the size and purity tests, and the rule is invoked only after a
\* non-empty relabeling.
C17_StepOrder ==
  last_split # <<>> =>
    /\ IsPrefix(last_split.calls,
                <<"size_test", "pure_test", "create_split_variable_subset",
                  "relabel", "find_best_split">>)
    /\ Ran("create_split_variable_subset") => PassesTests(last_split.samples)
    /\ Ran("find_best_split") =>
         Ran("relabel") /\ last_split.responses_by_sample # <<>>

\* C17 amended: split_node asks the sampler for the candidate subset first, for
\* every node; then the size test, the pure test, relabel and find_best_split
\* run in this order, each reached only if no earlier one made the node
\* terminal; the rule is invoked exactly when relabel returned a non-empty
\* mapping, and only a node the rule was invoked for is split.
C17_SubsetFirst ==
  last_split # <<>> =>
    /\ IsPrefix(last_split.calls,
                <<"create_split_variable_subset", "size_test", "pure_test",
                  "relabel", "find_best_split">>)
    /\ Ran("create_split_variable_subset") /\ Ran("size_test")
    /\ Ran("pure_test") <=> ~(Len(last_split.samples) <= min_node_size)
    /\ Ran("relabel") <=> PassesTests(last_split.samples)
    /\ Ran("find_best_split") <=>
         (Ran("relabel") /\ last_split.responses_by_sample # <<>>)
    /\ ~last_split.is_leaf => Ran("find_best_split")

\* a node the size test makes terminal, after a candidate subset was drawn for
\* it, in a tree that already has a split
C17_Witness ==
  /\ last_split # <<>>
  /\ last_split.node > 0
  /\ Len(last_split.samples) <= min_node_size
  /\ last_split.possible_split_vars # {}
  /\ last_split.calls = <<"create_split_variable_subset", "size_test">>

\* a node for which relabel returned the empty mapping
C17_EmptyRelabelReached ==
  /\ last_split # <<>>
  /\ Ran("relabel") /\ ~Ran("find_best_split")

\* the most nodes a tree over n split samples can have when no child is empty
MostNodes(n) == IF n = 0 THEN 1 ELSE 2 * n - 1

\* C19: with splits that send a sample to each child, at every head of the
\* worklist loop num_open_nodes is the number of created nodes not yet
\* processed (node count - i), so while it is positive i is the id of an
\* existing node; the nodes are processed one by one in increasing id order;
\* the tree never has more than 2n - 1 nodes for n split samples, which bounds
\* the iterations; and after the loop every created node has been processed.
C19_WorklistLoop ==
  /\ pc = "loop" =>
       /\ num_open_nodes = VSize(nodes) - i
       /\ num_open_nodes >= 0
       /\ num_open_nodes > 0 => i \in NodeIds
       /\ (i = 0) <=> (last_split = <<>>)
       /\ i > 0 => last_split.node = i - 1
       /\ VSize(nodes) <= MostNodes(Len(split_samples))
  /\ pc \in {"tree", "done", "aborted"} =>
       /\ num_open_nodes = 0
       /\ i = VSize(nodes)
       /\ i <= MostNodes(Len(split_samples))
       /\ last_split.node = i - 1

\* a loop that ran five iterations and has left
C19_Witness ==
  /\ pc = "tree"
  /\ i = 5
  /\ \E n \in NodeIds : n > 0 /\ HasChildren(n)

-----------------------------------------------------------------------------
(* TreeTrainer::create_split_variable_subset under every TreeOptions: the     *)
(* always-split and the never-split variables are disjoint, at least one      *)
(* variable may be split on, and weights come with a non-empty                *)
(* split_select_vars among the variables that may be split on                 *)
SubsetCols == 1..3

SubsetInit ==
  /\ subset_call = <<>>
  /\ \E num_cols \in SubsetCols :
       \E no_split \in (SUBSET (0..(num_cols - 1))) \ {0..(num_cols - 1)} :
         \E det \in SUBSET ((0..(num_cols - 1)) \ no_split),
            select_vars \in SUBSET ((0..(num_cols - 1)) \ no_split) :
           subset_options =
             [options |-> TreeOptions(det, no_split, select_vars,
                                      [k \in 1..Cardinality(select_vars) |-> 1]),
              num_cols |-> num_cols]

\* lines 116-143, one call
DrawSubset ==
  /\ \E r \in split_variable_subsets(subset_options.options, subset_options.num_cols) :
       subset_call' = r
  /\ UNCHANGED <<trainVars, collectVars, serialVars, subset_options>>

InitSubset == SubsetInit /\ TrainIdle /\ CollectIdle /\ SerialIdle

NextSubset == DrawSubset

SpecSubset == InitSubset /\ [][NextSubset]_vars

num_independent_variables ==
  subset_options.num_cols - Cardinality(subset_options.options.no_split_variables)

\* C13: on every call the number of variables to draw is the Poisson draw
\* clamped to [1, num_independent_variables]; the candidate set never holds more
\* than num_independent_variables variables, without weights it holds at least
\* the clamped number and at most that many besides the deterministic ones, and
\* with num_independent_variables = 1 it holds exactly 1 on every draw.
C13_MtryClamp ==
  subset_call # <<>> =>
    LET n == num_independent_variables
        o == subset_options.options
        c == subset_call
    IN /\ c.split_mtry \in 1..n
       /\ c.split_mtry = (IF c.mtry_sample < 1 THEN 1
                          ELSE IF c.mtry_sample > n THEN n ELSE c.mtry_sample)
       /\ Cardinality(c.result) <= n
       /\ o.deterministic_vars \subseteq c.result
       /\ o.split_select_weights = <<>> =>
            /\ Cardinality(c.result) >= c.split_mtry
            /\ Cardinality(c.result \ o.deterministic_vars) <= c.split_mtry
            /\ c.result \cap o.no_split_variables = {}
       /\ n = 1 => Cardinality(c.result) = 1

\* a draw of 2 with one independent variable among two columns
C13_Witness ==
  /\ subset_call # <<>>
  /\ subset_call.mtry_sample = 2
  /\ num_independent_variables = 1
  /\ subset_options.num_cols = 2
  /\ subset_options.options.split_select_weights = <<>>

\* a draw of 0, raised to 1
C13_ZeroDrawReached ==
  /\ subset_call # <<>>
  /\ subset_call.mtry_sample = 0
  /\ subset_options.options.deterministic_vars = {}

-----------------------------------------------------------------------------
\* C14: the leaf-values container of every compute_variance call has one entry
\* per tree of the forest; the entry of tree t is non-empty exactly when t
\* contributed to the row's average (not excluded by the mask, non-empty leaf
\* summary), and then it is that leaf's summary tuple.
C14_LeafValuesPerTree ==
  \A k \in DOMAIN variance_calls :
    LET c == variance_calls[k]
    IN /\ DOMAIN c.leaf_values.values = TreeIds
       /\ c.leaf_values.num_nodes = num_trees
       /\ \A t \in TreeIds :
            /\ (c.leaf_values.values[t] # <<>>) <=> (t \in Contributing(c.sample))
            /\ t \in Contributing(c.sample) =>
                 c.leaf_values.values[t] = LeafSummary(c.sample, t)

\* a compute_variance call for a row with a contributing tree, a tree the mask
\* excludes at a non-empty leaf and a tree that reaches an empty leaf
C14_Witness ==
  \E k \in DOMAIN variance_calls :
    LET s == variance_calls[k].sample
    IN /\ Contributing(s) # {}
       /\ \E t \in TreeIds : ~Included(s, t) /\ LeafSummary(s, t) # <<>>
       /\ \E t \in TreeIds : Included(s, t) /\ LeafSummary(s, t) = <<>>

\* C15: every PredictionValues the core constructs, the one attached to a tree
\* and the one built per row for compute_variance, holds for each node either
\* an empty tuple or a tuple of exactly num_types matrices.
C15_NumTypes ==
  /\ \A t \in TreeIds :
       \A n \in DOMAIN forest[t].values :
         Len(forest[t].values[n]) \in {0, forest[t].num_types}
  /\ \A k \in DOMAIN variance_calls :
       LET pv == variance_calls[k].leaf_values
       IN \A n \in DOMAIN pv.values : Len(pv.values[n]) \in {0, pv.num_types}

\* the part of C15 about the PredictionValues that train attaches to a tree
C15_TreeValuesConsistent ==
  Returned =>
    \A n \in DOMAIN prediction_values.values :
      Len(prediction_values.values[n]) \in {0, prediction_values.num_types}

\* C20 as stated: in every compute_variance call of the collector at least one
\* CI group has all its slots non-empty, so num_good_groups >= 1 and neither
\* var_between nor var_total divides by zero.
C20_GoodGroupExists ==
  \A k \in DOMAIN variance_calls :
    LET c == variance_calls[k]
    IN /\ GoodGroups(c) # {}
       /\ c.locals.num_good_groups >= 1
       /\ ~IsNaN(c.locals.var_between) /\ ~IsNaN(c.locals.var_total)

\* C20 amended: in every compute_variance call num_good_groups is the number of
\* CI groups without an empty slot; it is 0 when every group has an empty slot
\* or num_trees < ci_group_size, and then var_between, var_total and group_noise
\* are 0/0 = NaN and go to the debiaser; with a complete group the divisors are
\* positive and the three values are finite numbers.
C20_GoodGroupsCounted ==
  \A k \in DOMAIN variance_calls :
    LET c == variance_calls[k]
        l == c.locals
        n == Cardinality(GoodGroups(c))
    IN /\ c.ci_group_size > 1 /\ Contributing(c.sample) # {}
       /\ l.num_good_groups = n
       /\ n = 0 => /\ IsNaN(l.var_between) /\ IsNaN(l.var_total)
                   /\ IsNaN(l.group_noise)
       /\ n >= 1 => /\ l.var_between.den > 0 /\ l.var_total.den > 0
                    /\ l.group_noise.den > 0
       /\ l.result = VecConstant(1, debias(l.var_between, l.group_noise, n))

\* a call with contributing leaves and no complete group, for a number of
\* trees that ci_group_size does not divide
C20_Witness ==
  \E k \in DOMAIN variance_calls :
    LET c == variance_calls[k]
    IN /\ GoodGroups(c) = {}
       /\ num_trees >= c.ci_group_size
       /\ num_trees % c.ci_group_size # 0
       /\ Cardinality(Contributing(c.sample)) >= 2

-----------------------------------------------------------------------------
(* The serializers: a stream is the sequence of the items written; a vector  *)
(* is written as its size and its elements, PredictionValues after a        *)
(* (num_nodes, num_types) header                                            *)

RECURSIVE Flatten(_)
Flatten(ss) == IF ss = <<>> THEN <<>> ELSE Head(ss) \o Flatten(Tail(ss))

Read(value, next) == [value |-> value, next |-> next]

write_vector(v) == <<Len(v)>> \o v

\* the last element is not read
read_vector_short(st, pos) ==
  Read(SubSeq(st, pos + 1, pos + st[pos] - 1), pos + st[pos] + 1)

read_vector(st, pos) ==
  Read(SubSeq(st, pos + 1, pos + st[pos]), pos + st[pos] + 1)

write_nested(vv) ==
  <<Len(vv)>> \o Flatten([k \in 1..Len(vv) |-> write_vector(vv[k])])

RECURSIVE read_vectors(_, _, _, _)
read_vectors(st, pos, n, acc) ==
  IF n = 0 THEN Read(acc, pos)
  ELSE LET r == read_vector(st, pos)
       IN read_vectors(st, r.next, n - 1, Append(acc, r.value))

read_nested(st, pos) == read_vectors(st, pos + 1, st[pos], <<>>)

write_matrix(m) == <<m.rows, m.cols>> \o m.coef

read_matrix(st, pos) ==
  LET rows == st[pos]
      cols == st[pos + 1]
  IN Read(Matrix(rows, cols, SubSeq(st, pos + 2, pos + 1 + rows * cols)),
          pos + 2 + rows * cols)

write_matrices(ms) ==
  <<Len(ms)>> \o Flatten([k \in 1..Len(ms) |-> write_matrix(ms[k])])

RECURSIVE read_matrix_list(_, _, _, _)
read_matrix_list(st, pos, n, acc) ==
  IF n = 0 THEN Read(acc, pos)
  ELSE LET r == read_matrix(st, pos)
       IN read_matrix_list(st, r.next, n - 1, Append(acc, r.value))

read_matrices(st, pos) == read_matrix_list(st, pos + 1, st[pos], <<>>)

\* PredictionValuesSerializer::serialize
write_prediction_values(pv) ==
  <<pv.num_nodes, pv.num_types>>
  \o Flatten([k \in 1..pv.num_nodes |-> write_matrices(pv_get_values(pv, k - 1))])

RECURSIVE read_node_values(_, _, _, _)
read_node_values(st, pos, n, acc) ==
  IF n = 0 THEN Read(acc, pos)
  ELSE LET r == read_matrices(st, pos)
       IN read_node_values(st, r.next, n - 1, PushBack(acc, r.value))

\* PredictionValuesSerializer::deserialize
read_prediction_values(st, pos) ==
  LET r == read_node_values(st, pos + 2, st[pos], EmptyVec)
  IN Read(PredictionValues(r.value, st[pos], st[pos + 1]), r.next)

\* Tree(root_node, child_nodes, leaf_samples, split_vars, split_values,
\* oob_samples, prediction_values)
Tree(root_node, cn, leaf_samples, svars, svals, oob_samples, pv) ==
  [root_node |-> root_node, child_nodes |-> cn, leaf_samples |-> leaf_samples,
   split_vars |-> svars, split_values |-> svals, oob_samples |-> oob_samples,
   prediction_values |-> pv]

\* TreeSerializer::serialize
write_tree(t) ==
  <<t.root_node>> \o write_nested(t.child_nodes) \o write_nested(t.leaf_samples)
  \o write_vector(t.split_vars) \o write_vector(t.split_values)
  \o write_vector(t.oob_samples) \o write_prediction_values(t.prediction_values)

\* TreeSerializer::deserialize
read_tree(st, pos) ==
  LET cn == read_nested(st, pos + 1)
      leaf_samples == read_nested(st, cn.next)
      svars == read_vector(st, leaf_samples.next)
      svals == read_vector(st, svars.next)
      oob_samples == read_vector(st, svals.next)
      pv == read_prediction_values(st, oob_samples.next)
  IN Read(Tree(st[pos], cn.value, leaf_samples.value, svars.value, svals.value,
               oob_samples.value, pv.value),
          pv.next)

\* Observations(observations_by_type, num_samples)
Observations(observations_by_type, n) ==
  [observations_by_type |-> observations_by_type, num_samples |-> n]

\* ObservationsSerializer::serialize
write_observations(o) == <<o.num_samples>> \o write_matrices(o.observations_by_type)

\* ObservationsSerializer::deserialize
read_observations(st, pos) ==
  LET r == read_matrices(st, pos + 1)
  IN Read(Observations(r.value, st[pos]), r.next)

\* Forest(trees, observations, num_variables)
Forest(trees, o, num_variables) ==
  [trees |-> trees, observations |-> o, num_variables |-> num_variables]

\* ForestSerializer::serialize
write_forest(f) ==
  <<f.num_variables, Len(f.trees)>>
  \o Flatten([k \in 1..Len(f.trees) |-> write_tree(f.trees[k])])
  \o write_observations(f.observations)

RECURSIVE read_trees(_, _, _, _)
read_trees(st, pos, n, acc) ==
  IF n = 0 THEN Read(acc, pos)
  ELSE LET r == read_tree(st, pos)
       IN read_trees(st, r.next, n - 1, Append(acc, r.value))

\* ForestSerializer::deserialize
read_forest(st, pos) ==
  LET trees == read_trees(st, pos + 2, st[pos + 1], <<>>)
      o == read_observations(st, trees.next)
  IN Read(Forest(trees.value, o.value, st[pos]), o.next)

\* the objects of the round trips: every array of a tree has its own length
SerialLens == 0..2
IdSeq(n) == [k \in 1..n |-> k]
SerialValues == {NoPredictionValues, TreeValues(1), TreeValues(SummaryCols)}
SerialTrees ==
  {Tree(0, [k \in 1..a |-> IdSeq(b)], [k \in 1..c |-> IdSeq(k)], IdSeq(d),
        [k \in 1..e |-> Num(k)], IdSeq(f), pv) :
     a \in SerialLens, b \in SerialLens, c \in SerialLens, d \in SerialLens,
     e \in SerialLens, f \in SerialLens, pv \in SerialValues}
SerialObservations ==
  {Observations([t \in 1..num_types |-> MatConstant(n, 1, Num(t))], n) :
     num_types \in 0..3, n \in SerialLens}
SerialForests ==
  {Forest([k \in 1..n |-> Tree(0, <<IdSeq(k)>>, <<IdSeq(k)>>, IdSeq(k), <<Num(k)>>,
                                IdSeq(k), NoPredictionValues)],
          o, 3) :
     n \in SerialLens, o \in SerialObservations}

SerialInit ==
  /\ ser_value \in ([kind : {"tree"}, value : SerialTrees]
                     \cup [kind : {"observations"}, value : SerialObservations]
                     \cup [kind : {"prediction_values"}, value : SerialValues]
                     \cup [kind : {"forest"}, value : SerialForests])
  /\ ser_stream = <<>>
  /\ ser_result = <<>>
  /\ ser_pc = "value"

\* serializer.serialize(stream, value)
Serialize ==
  /\ ser_pc = "value"
  /\ ser_stream' = (CASE ser_value.kind = "tree" -> write_tree(ser_value.value)
                      [] ser_value.kind = "observations" ->
                           write_observations(ser_value.value)
                      [] ser_value.kind = "prediction_values" ->
                           write_prediction_values(ser_value.value)
                      [] ser_value.kind = "forest" -> write_forest(ser_value.value))
  /\ ser_pc' = "stream"
  /\ UNCHANGED <<trainVars, collectVars, subsetVars, ser_value, ser_result>>

\* serializer.deserialize(stream)
Deserialize ==
  /\ ser_pc = "stream"
  /\ ser_result' = (CASE ser_value.kind = "tree" -> read_tree(ser_stream, 1)
                      [] ser_value.kind = "observations" ->
                           read_observations(ser_stream, 1)
                      [] ser_value.kind = "prediction_values" ->
                           read_prediction_values(ser_stream, 1)
                      [] ser_value.kind = "forest" -> read_forest(ser_stream, 1)).value
  /\ ser_pc' = "read"
  /\ UNCHANGED <<trainVars, collectVars, subsetVars, ser_value, ser_stream>>

InitSerial == SerialInit /\ TrainIdle /\ CollectIdle /\ SubsetIdle

NextSerial ==
  \/ Serialize
  \/ Deserialize

SpecSerial == InitSerial /\ [][NextSerial]_vars

\* C16: after serialize and deserialize the element counts are those of the
\* original: for a Tree the sizes of leaf samples, child nodes, split vars, split
\* values and OOB samples; for Observations the number of samples, of roles and
\* the size of each role's matrix; for PredictionValues num_nodes and num_types;
\* for a Forest the number of trees and of observation samples.
C16_RoundTripCounts ==
  ser_pc = "read" =>
    LET x == ser_value.value
        y == ser_result
    IN CASE ser_value.kind = "tree" ->
              /\ Len(y.leaf_samples) = Len(x.leaf_samples)
              /\ Len(y.child_nodes) = Len(x.child_nodes)
              /\ Len(y.split_vars) = Len(x.split_vars)
              /\ Len(y.split_values) = Len(x.split_values)
              /\ Len(y.oob_samples) = Len(x.oob_samples)
         [] ser_value.kind = "observations" ->
              /\ y.num_samples = x.num_samples
              /\ Len(y.observations_by_type) = Len(x.observations_by_type)
              /\ \A t \in DOMAIN x.observations_by_type :
                   Len(y.observations_by_type[t].coef) = Len(x.observations_by_type[t].coef)
         [] ser_value.kind = "prediction_values" ->
              /\ y.num_nodes = x.num_nodes
              /\ y.num_types = x.num_types
         [] ser_value.kind = "forest" ->
              /\ Len(y.trees) = Len(x.trees)
              /\ y.observations.num_samples = x.observations.num_samples

\* a tree whose five arrays all differ in length, read back
C16_Witness ==
  /\ ser_pc = "read"
  /\ ser_value.kind = "tree"
  /\ Len(ser_value.value.child_nodes) # Len(ser_value.value.leaf_samples)
  /\ Len(ser_value.value.split_vars) # Len(ser_value.value.split_values)
  /\ Len(ser_value.value.oob_samples) # Len(ser_value.value.split_vars)
  /\ ser_value.value.prediction_values # NoPredictionValues

\* the whole object is read back
C16_RoundTripEqual == ser_pc = "read" => ser_result = ser_value.value

-----------------------------------------------------------------------------
(* A forest of one trained tree and its predictions: train on a non-empty     *)
(* subsample of the rows of data, then ForestPredictor::predict or           *)
(* predict_oob over the same rows                                            *)
ForestSizes == 1..3
ForestMinNodeSizes == {1}
ForestCiGroupSizes == {1}

ForestInit ==
  /\ honesty \in BOOLEAN
  /\ min_node_size \in ForestMinNodeSizes
  /\ \E n \in ForestSizes :
       /\ \E S \in (SUBSET (0..(n - 1))) \ {{}} : samples = SetToSeq(S)
       /\ data \in [0..(n - 1) -> [Columns -> DataValues]]
       /\ observations \in [0..(n - 1) -> OutcomeRows]
  /\ child_nodes = [c \in 0..1 |-> EmptyVec]
  /\ nodes = EmptyVec
  /\ split_vars = EmptyVec
  /\ split_values = EmptyVec
  /\ new_leaf_samples = <<>>
  /\ num_open_nodes = 0
  /\ i = 0
  /\ prediction_values = NoPredictionValues
  /\ split_samples = <<>>
  /\ last_split = <<>>
  /\ pc = "start"

\* the rows of data and the OOB samples of the tree
DataRows == DOMAIN data
oob_samples == DataRows \ Range(samples)

\* ForestPredictor::predict (oob = FALSE) and predict_oob (oob = TRUE) up to the
\* call of collect_predictions
PredictStart ==
  /\ pc = "done" /\ cpc = "off"
  /\ \E oob \in BOOLEAN :
       trees_by_sample' =
         IF oob THEN [s \in DataRows |-> VecOf(1, s \in oob_samples)] ELSE EmptyVec
  /\ ci_group_size' \in ForestCiGroupSizes
  /\ forest' = VecOf(1, prediction_values)
  /\ leaf_nodes_by_tree' =
       VecOf(1, [s \in DataRows |-> find_leaf(0, s, child_nodes, split_vars, split_values)])
  /\ num_samples' = Cardinality(DataRows)
  /\ sample' = 0
  /\ predictions' = <<>>
  /\ cpc' = "run"
  /\ UNCHANGED <<trainVars, auxVars, predict_calls, variance_calls>>

InitForest == ForestInit /\ CollectIdle /\ AuxIdle

\* the point prediction of a trained tree always has prediction_length()
\* entries, so validate_prediction does not throw here
NextForest ==
  \/ TrainBegin
  \/ SplitNode
  \/ Repopulate
  \/ Precompute
  \/ PrecomputeAbort
  \/ PredictStart
  \/ RowPlaceholder
  \/ RowPredict
  \/ CollectReturn

SpecForest == InitForest /\ [][NextForest]_vars

\* row s was answered with the placeholder
EmptyRow(s) == Contributing(s) = {} /\ predictions[s + 1] = placeholder_prediction
Answered == IF cpc \in {"run", "returned"} THEN 0..(sample - 1) ELSE {}

C18_HonestEmptyRowReached ==
  /\ honesty /\ cpc = "returned" /\ trees_by_sample = EmptyVec
  /\ \E s \in Answered : EmptyRow(s)

====
